---- MODULE Spec2Model ----
(***************************************************************************)
(* Settlement reconciliation engine of AgentBlinkPay                       *)
(* (backend/src/services/solanaListener.ts, the structured-decoding        *)
(* revision that starts at line 383 of the file, with db/index.ts,         *)
(* db/schema.sql and services/circle.ts).                                  *)
(*                                                                         *)
(* The Node process is single threaded: the code between two awaits runs   *)
(* without interleaving, so each action below is one such segment.  The    *)
(* awaits of the listener are connection.getSlot() and                     *)
(* circle.transferUsdc(); the database calls (better-sqlite3) are          *)
(* synchronous statements, each committed on its own.                      *)
(***************************************************************************)
EXTENDS Integers, Sequences, FiniteSets, TLC

\* ------------------------------------------------------------------------
\* Bounds of the model (not program constants)
\* ------------------------------------------------------------------------
\* sweeps (startup recovery or timer ticks) that may be in flight at once
MaxTasks == 2
\* circle.transferUsdc calls recorded in one behaviour
MaxCalls == 2
\* the same, for the behaviours of SpecOverlap
MaxCallsOverlap == 4

\* ------------------------------------------------------------------------
\* Program constants
\* ------------------------------------------------------------------------
FINALITY_BUFFER == 32
StuckTimeoutMs == 60000

NULL == "null"

\* Chain positions the RPC node can report, and the instants of the wall
\* clock (seconds) at which something happens: 60 is exactly the stuck
\* timeout after 0, 61 is just over it.
SlotValues == {1, 33, 34}
ClockValues == {0, 60, 61}
\* Offset of the process' local time zone east of UTC, in seconds.
TzOffsets == {0, 3600, 0 - 3600}

\* ------------------------------------------------------------------------
\* 64-bit values.  A u64 / bigint v is held as [hi, lo] with
\* v = hi * 2^53 + lo, hi \in {0,1}, lo < 2^31: enough to stand on both
\* sides of the largest integer a JS number holds exactly.
\* ------------------------------------------------------------------------
Big(h, l) == [hi |-> h, lo |-> l]

\* Number(bigint): IEEE-754 double, round to nearest, ties to even.  Below
\* 2^53 the conversion is exact; in [2^53, 2^54) doubles are the even
\* integers.
ToNumber(v) ==
    IF v.hi = 0 \/ v.lo % 2 = 0 THEN v
    ELSE IF ((v.lo - 1) \div 2) % 2 = 0 THEN Big(1, v.lo - 1)
    ELSE Big(1, v.lo + 1)

\* number.toString() of an integer-valued double below 1e21: its decimal
\* digits, one string per value.
NumToString(v) == <<"dec", v.hi, v.lo>>

\* v > 0 on a number held as above
Positive(v) == v.hi = 1 \/ v.lo > 0

\* ------------------------------------------------------------------------
\* Registered agents and meters (rows of the agents / meters tables)
\* ------------------------------------------------------------------------
AgentRows ==
    { [id |-> "agent-1", agent_pubkey |-> "A1", circle_wallet_id |-> "wallet_A1",
       api_key |-> "ak_1", frozen |-> FALSE],
      [id |-> "agent-2", agent_pubkey |-> "A2", circle_wallet_id |-> "wallet_A2",
       api_key |-> "ak_2", frozen |-> TRUE] }

MeterRows ==
    { [id |-> "meter-1", meter_pubkey |-> "M1", merchant_wallet_id |-> "wallet_M1",
       category |-> 1, price_per_call |-> 50000] }

\* db.agents.findByPubkey.get / db.meters.findByPubkey.get: the set of
\* matching rows (pubkeys are UNIQUE, so at most one)
AgentsByPubkey(pk) == { a \in AgentRows : a.agent_pubkey = pk }

\* (mutant) a meter lookup that answers with a row whatever the key
MetersByAnyPubkey(pk) == MeterRows

MetersByPubkey(pk) == { m \in MeterRows : m.meter_pubkey = pk }

\* ------------------------------------------------------------------------
\* Log batches delivered by connection.onLogs.  data is the MeterPaid event
\* as the Anchor EventParser decodes it; hasEvent = FALSE is a batch with no
\* MeterPaid event, hasSlot = FALSE an event whose slot field is missing.
\* ------------------------------------------------------------------------
EventData(ag, mt, am, cat, nn, hs, sl) ==
    [agent |-> ag, meter |-> mt, amount |-> am, category |-> cat, nonce |-> nn,
     hasSlot |-> hs, slot |-> sl]

EvA == EventData("A1", "M1", Big(0, 50000), 1, Big(0, 7), TRUE, 1)
EvB == EventData("A1", "M1", Big(0, 50000), 2, Big(0, 8), TRUE, 2)

DecodedEvents ==
    { EvA, EvB,
      EventData("A1", "M1", Big(0, 50000), 1, Big(0, 9), TRUE, 0),
      EventData("A1", "M1", Big(0, 50000), 1, Big(0, 9), TRUE, 0 - 5),
      EventData("A1", "M1", Big(0, 50000), 1, Big(0, 9), FALSE, 0),
      EventData("AX", "M1", Big(0, 50000), 1, Big(0, 9), TRUE, 1),
      EventData("A1", "MX", Big(0, 50000), 1, Big(0, 9), TRUE, 1) }

\* err = TRUE: the transaction that wrote the logs failed on chain
LogBatches ==
    { [err |-> FALSE, hasEvent |-> TRUE, data |-> d] : d \in DecodedEvents }
    \cup { [err |-> TRUE, hasEvent |-> TRUE, data |-> EvB],
           [err |-> FALSE, hasEvent |-> FALSE, data |-> EvA] }

\* ------------------------------------------------------------------------
\* State
\* ------------------------------------------------------------------------
VARIABLES
    payments,    \* payments table, in created_at order (db.payments.listAll)
    credits,     \* credits table
    calls,       \* every circle.transferUsdc call made so far, with its outcome
    chainSlot,   \* current slot of the chain (what getSlot returns)
    now,         \* wall clock, seconds
    tz,          \* local time zone offset of the process
    phase,       \* "down" | "recovering" (startListener awaits recoverState) | "running"
    tasks,       \* the sweeps in flight: startup recovery and timer ticks
    forwarded,   \* the gateway requests proxied upstream, with the credit each used
    pays,        \* the POST /agents/:id/pay requests that submitted a transaction
    client,      \* an SDK client inside callPaywalledApi
    stop,        \* stopListener: "idle" | "unsubscribing" (it awaits
                 \* removeOnLogsListener) | "completed" (it has returned and
                 \* startListener has not been called since)
    listener     \* the module state of solanaListener.ts (state.isRunning,
                 \* state.subscriptionId, retryInterval), the subscriptions and
                 \* interval timers that exist, and the startListener calls

vars == <<payments, credits, calls, chainSlot, now, tz, phase, tasks,
          forwarded, pays, client, stop, listener>>

\* the state of the HTTP side: gateway, pay route, SDK client
flowVars == <<forwarded, pays, client>>

\* requests / payCalls: the fetches of the gateway URL and of the pay URL the
\* invocation has made; status / payStatus: the status of the last response
\* to each (0: none yet)
IdleClient ==
    [pc |-> "idle", pay |-> 0, requests |-> 0, payCalls |-> 0,
     status |-> 0, payStatus |-> 0]

TaskIds == 1..MaxTasks

\* startListener calls made in one behaviour
MaxStarts == 3

StartIds == 1..MaxStarts

\* The listener module as loaded: isRunning false, subscriptionId and
\* retryInterval null (0), no subscription and no timer; starts[c] is where
\* the c-th startListener call is, stopSub the subscription id a
\* stopListener call in flight gave removeOnLogsListener.
IdleListener ==
    [isRunning |-> FALSE, subscriptionId |-> 0, retryInterval |-> 0,
     subs |-> {}, timers |-> {}, made |-> 0,
     starts |-> [c \in StartIds |-> "none"], stopSub |-> 0]

\* What a sweep keeps of a row it listed: the fields its later code reads.
Snapshot(r) ==
    [id |-> r.id, event_id |-> r.event_id, agent_id |-> r.agent_id,
     meter_id |-> r.meter_id, amount |-> r.amount, slot |-> r.slot,
     from_wallet_id |-> r.from_wallet_id, to_wallet_id |-> r.to_wallet_id]

NoRow ==
    [id |-> 0, event_id |-> <<>>, agent_id |-> NULL, meter_id |-> NULL,
     amount |-> Big(0, 0), slot |-> 0, from_wallet_id |-> NULL, to_wallet_id |-> NULL]

IdleTask ==
    [pc |-> "idle", kind |-> "none", stage |-> "none", slot |-> 0, rest |-> <<>>,
     cur |-> NoRow, call |-> 0, promoted |-> {}]

SeqToSet(s) == { s[i] : i \in DOMAIN s }

\* ------------------------------------------------------------------------
\* circle.ts
\* ------------------------------------------------------------------------
\* generateIdempotencyKey: sha256 of `${agentPubkey}:${meterPubkey}:${nonce}`.
\* Base58 keys hold no ':', so the hashed string is one per triple; the hash
\* is taken as collision free and stands as the triple (nonce as it prints).
generateIdempotencyKey(agentPubkey, meterPubkey, nonce) ==
    <<agentPubkey, meterPubkey, NumToString(nonce)>>

\* ------------------------------------------------------------------------
\* db/index.ts
\* ------------------------------------------------------------------------
\* payments.findByEventId
findByEventId(P, eventId) == { i \in DOMAIN P : P[i].event_id = eventId }

\* (mutant) updateStatus that leaves error_message and circle_transfer_id
\* as they are when it is given null
updateStatusKeepsColumns(P, status, msg, transferId, id, t) ==
    [i \in DOMAIN P |->
        IF P[i].id = id
        THEN [P[i] EXCEPT !.status = status,
                          !.error_message = IF msg = NULL THEN @ ELSE msg,
                          !.circle_transfer_id = IF transferId = NULL THEN @ ELSE transferId,
                          !.updated_at = t]
        ELSE P[i]]

\* (mutant) updateStatus that also stamps the row's slot column
updateStatusTouchesSlot(P, status, msg, transferId, id, t) ==
    [i \in DOMAIN P |->
        IF P[i].id = id
        THEN [P[i] EXCEPT !.status = status, !.error_message = msg,
                          !.circle_transfer_id = transferId, !.updated_at = t,
                          !.slot = @ + 1]
        ELSE P[i]]

\* payments.updateStatus: writes status, error_message, circle_transfer_id
\* and updated_at of the row with that id, whatever its current status
updateStatus(P, status, msg, transferId, id, t) ==
    [i \in DOMAIN P |->
        IF P[i].id = id
        THEN [P[i] EXCEPT !.status = status, !.error_message = msg,
                          !.circle_transfer_id = transferId, !.updated_at = t]
        ELSE P[i]]

\* payments.create: INSERT with the schema's defaults (status 'pending');
\* event_id is UNIQUE, a second row with the same event_id is refused
\* (the statement throws and the table is unchanged)
CreateThrows(P, eventId) == \E i \in DOMAIN P : P[i].event_id = eventId

createPayment(P, id, eventId, agentId, meterId, amount, nonce, category, slot, fromW, toW, t) ==
    Append(P, [id |-> id, event_id |-> eventId, agent_id |-> agentId,
               meter_id |-> meterId, amount |-> amount, nonce |-> nonce,
               category |-> category, slot |-> slot, from_wallet_id |-> fromW,
               to_wallet_id |-> toW, status |-> "pending", error_message |-> NULL,
               circle_transfer_id |-> NULL, updated_at |-> t])

\* credits.create
createCredit(C, agentId, meterId, paymentId) ==
    Append(C, [agent_id |-> agentId, meter_id |-> meterId, payment_id |-> paymentId,
               used |-> FALSE])

\* ------------------------------------------------------------------------
\* solanaListener.ts: ingestion
\* ------------------------------------------------------------------------
\* parseMeterPaidEvent: the decoded event with its 64-bit fields kept as
\* bigint; a missing field makes data.slot.toString() throw, which the
\* function catches and answers null (no event)
ParsedEvents(batch) ==
    IF batch.hasEvent /\ batch.data.hasSlot THEN { batch.data } ELSE {}

\* (mutant) the key built with the clock where the nonce belongs, as the
\* stub parser of an earlier revision did (nonce: BigInt(Date.now()))
EventIdFromClock(event) ==
    generateIdempotencyKey(event.agent, event.meter, Big(0, now))

\* The dedup key createInitialPaymentRecord computes for an event
EventIdOf(event) ==
    generateIdempotencyKey(event.agent, event.meter, ToNumber(event.nonce))

\* eventSlot = Number(event.slot); chain positions are far below 2^53, so
\* the number is the slot itself.  The guard is  !eventSlot || eventSlot <= 0.
\* (mutant) the guard without its falsy test and with < for <=
InvalidSlotMissesZero(eventSlot) == eventSlot < 0

InvalidSlot(eventSlot) == eventSlot = 0 \/ eventSlot <= 0

\* (mutant) the row inserted with the category the event carries
insertPaymentEventCategory(P, event, agent, meter, t) ==
    createPayment(P, Len(P) + 1, EventIdOf(event), agent.id, meter.id,
                  ToNumber(event.amount), ToNumber(event.nonce),
                  event.category, event.slot,
                  agent.circle_wallet_id, meter.merchant_wallet_id, t)

\* the db.payments.create.run(...) of createInitialPaymentRecord: the table
\* with the row inserted, its status still the schema's default
insertPayment(P, event, agent, meter, t) ==
    createPayment(P, Len(P) + 1, EventIdOf(event), agent.id, meter.id,
                  ToNumber(event.amount), ToNumber(event.nonce),
                  meter.category, event.slot,
                  agent.circle_wallet_id, meter.merchant_wallet_id, t)

\* (mutant) createInitialPaymentRecord that, finding the event recorded,
\* puts the existing row back to pending_finality
createInitialPaymentRecordResets(P, event, t) ==
    LET eventId  == EventIdOf(event)
        agentSet == AgentsByPubkey(event.agent)
        meterSet == MetersByPubkey(event.meter)
    IN  IF InvalidSlot(event.slot) THEN [payments |-> P, outcome |-> "invalid_slot"]
        ELSE IF findByEventId(P, eventId) # {}
             THEN [payments |-> updateStatus(P, "pending_finality", NULL, NULL,
                                             P[CHOOSE i \in findByEventId(P, eventId) : TRUE].id, t),
                   outcome |-> "duplicate"]
        ELSE IF agentSet = {} THEN [payments |-> P, outcome |-> "unknown_agent"]
        ELSE IF meterSet = {} THEN [payments |-> P, outcome |-> "unknown_meter"]
        ELSE LET agent == CHOOSE a \in agentSet : TRUE
                 meter == CHOOSE m \in meterSet : TRUE
                 P1 == insertPayment(P, event, agent, meter, t)
             IN  [payments |-> updateStatus(P1, "pending_finality", NULL, NULL, Len(P) + 1, t),
                  outcome |-> "inserted"]

\* createInitialPaymentRecord(event) on table P at time t: the new table
\* and which return the function took
createInitialPaymentRecord(P, event, t) ==
    LET eventSlot == event.slot
        paymentId == Len(P) + 1
        eventId   == EventIdOf(event)
        agentSet  == AgentsByPubkey(event.agent)
        meterSet  == MetersByPubkey(event.meter)
    IN  IF InvalidSlot(eventSlot) THEN [payments |-> P, outcome |-> "invalid_slot"]
        ELSE IF findByEventId(P, eventId) # {} THEN [payments |-> P, outcome |-> "duplicate"]
        ELSE IF agentSet = {} THEN [payments |-> P, outcome |-> "unknown_agent"]
        ELSE IF meterSet = {} THEN [payments |-> P, outcome |-> "unknown_meter"]
        ELSE IF CreateThrows(P, eventId) THEN [payments |-> P, outcome |-> "create_failed"]
        ELSE LET agent == CHOOSE a \in agentSet : TRUE
                 meter == CHOOSE m \in meterSet : TRUE
                 P1 == insertPayment(P, event, agent, meter, t)
             IN  [payments |-> updateStatus(P1, "pending_finality", NULL, NULL, paymentId, t),
                  outcome |-> "inserted"]

\* (mutant) processLogs without its test of logs.err
processLogsIgnoresErr(P, batch, t) ==
    IF ParsedEvents(batch) = {} THEN [payments |-> P, outcome |-> "no_event"]
    ELSE createInitialPaymentRecord(P, batch.data, t)

\* processLogs(logs), called by the onLogs subscription
processLogs(P, batch, t) ==
    IF batch.err THEN [payments |-> P, outcome |-> "tx_failed"]
    ELSE IF ParsedEvents(batch) = {} THEN [payments |-> P, outcome |-> "no_event"]
    ELSE createInitialPaymentRecord(P, batch.data, t)

\* ------------------------------------------------------------------------
\* solanaListener.ts: sweeps
\* ------------------------------------------------------------------------
\* new Date(p.updated_at).getTime(): updated_at is SQLite's CURRENT_TIMESTAMP,
\* 'YYYY-MM-DD HH:MM:SS' in UTC with no zone designator, which the Date
\* constructor reads as local time
ParseDate(updated_at) == updated_at - tz

\* the filter of retryFailedPayments
IsStuck(r) ==
    r.status = "processing" /\ (now - ParseDate(r.updated_at)) * 1000 > StuckTimeoutMs

\* (mutant) the filter on the schema's default status
IsPendingOnly(r) == r.status = "pending"

\* the filter of processPendingFinality
IsPendingFinality(r) == r.status = "pending_finality"

\* (mutant) the finality test one slot early
FinalityReachedOffByOne(currentSlot, p) == currentSlot >= p.slot + FINALITY_BUFFER - 1

\* the finality test of processPendingFinality
FinalityReached(currentSlot, p) == currentSlot >= p.slot + FINALITY_BUFFER

\* (mutant) the idempotency key built from the row's own ids instead of
\* being the stored event_id
TransferArgsKeyFromIds(payment) ==
    [fromWalletId |-> payment.from_wallet_id, toWalletId |-> payment.to_wallet_id,
     amount |-> NumToString(payment.amount),
     idempotencyKey |-> generateIdempotencyKey(payment.agent_id, payment.meter_id,
                                               Big(0, payment.id))]

\* the arguments executeTransfer gives circle.transferUsdc
TransferArgs(payment) ==
    [fromWalletId |-> payment.from_wallet_id, toWalletId |-> payment.to_wallet_id,
     amount |-> NumToString(payment.amount), idempotencyKey |-> payment.event_id]

\* executeTransfer up to its await: status 'processing', then the call
StartTransfer(P, CL, task, payment, stage, rest) ==
    [payments |-> updateStatus(P, "processing", NULL, NULL, payment.id, now),
     calls |-> Append(CL, [args |-> TransferArgs(payment), payment_id |-> payment.id,
                           outcome |-> "inflight", via |-> stage, observed |-> task.slot]),
     task |-> [task EXCEPT !.pc = "transfer", !.stage = stage, !.rest = rest,
                           !.cur = payment, !.call = Len(CL) + 1,
                           !.promoted = IF stage = "promote" THEN @ \cup {payment.id} ELSE @]]

RECURSIVE RunSweep(_, _, _, _, _)
\* A sweep from the point where it holds `rest` of the list of `stage`, up
\* to its next await (a transfer) or its end.  "promote" is the loop of
\* processPendingFinality, "reap" the loop of retryFailedPayments, which
\* lists the stuck rows when the first loop is over.
RunSweep(P, CL, task, stage, rest) ==
    IF rest = <<>>
    THEN IF stage = "promote"
         THEN RunSweep(P, CL, task, "reap",
                       [i \in DOMAIN SelectSeq(P, IsStuck) |-> Snapshot(SelectSeq(P, IsStuck)[i])])
         ELSE [payments |-> P, calls |-> CL, task |-> IdleTask]
    ELSE LET p == Head(rest)
         IN  IF stage = "promote"
             THEN IF FinalityReached(task.slot, p)
                  THEN StartTransfer(updateStatus(P, "pending", NULL, NULL, p.id, now),
                                     CL, task, p, stage, Tail(rest))
                  ELSE RunSweep(P, CL, task, stage, Tail(rest))
             ELSE StartTransfer(P, CL, task, p, stage, Tail(rest))

\* the rows processPendingFinality lists, as the sweep keeps them
PendingFinalityList(P) ==
    [i \in DOMAIN SelectSeq(P, IsPendingFinality) |->
        Snapshot(SelectSeq(P, IsPendingFinality)[i])]

\* circle.transferUsdc returns a fresh transfer id per call
TransferId(call) == <<"transfer", call>>

\* The process dies: every sweep is gone, and the transfer calls it was
\* awaiting never return to it
LoseInflight(CL) ==
    [i \in DOMAIN CL |->
        IF CL[i].outcome = "inflight" THEN [CL[i] EXCEPT !.outcome = "lost"] ELSE CL[i]]

\* ------------------------------------------------------------------------
\* Initial state: the module is loaded, startListener has not been called
\* ------------------------------------------------------------------------
Init ==
    /\ payments = <<>>
    /\ credits = <<>>
    /\ calls = <<>>
    /\ chainSlot = 1
    /\ now = 0
    /\ tz \in TzOffsets
    /\ phase = "down"
    /\ tasks = [t \in TaskIds |-> IdleTask]
    /\ forwarded = <<>>
    /\ pays = <<>>
    /\ client = IdleClient
    /\ stop = "idle"
    /\ listener = IdleListener

\* ------------------------------------------------------------------------
\* Actions
\* ------------------------------------------------------------------------
\* startListener up to its first await: recoverState -> processPendingFinality
\* -> getSlot
StartListener ==
    /\ phase = "down"
    /\ phase' = "recovering"
    /\ tasks' = [tasks EXCEPT ![1] = [IdleTask EXCEPT !.pc = "getSlot", !.kind = "recover"]]
    /\ stop' = "idle"
    /\ UNCHANGED <<listener, payments, credits, calls, chainSlot, now, tz, forwarded, pays, client>>

\* the setInterval callback of startRetryJob fires: processPendingFinality
\* -> getSlot.  The timer does not wait for the previous callback to end.
TimerTick ==
    /\ phase = "running"
    /\ \E t \in TaskIds :
        /\ tasks[t].pc = "idle"
        /\ \A u \in TaskIds : u < t => tasks[u].pc # "idle"
        /\ tasks' = [tasks EXCEPT ![t] = [IdleTask EXCEPT !.pc = "getSlot", !.kind = "tick"]]
    /\ UNCHANGED <<listener, stop, payments, credits, calls, chainSlot, now, tz, phase, forwarded, pays, client>>

\* what a sweep leaves when it has run to its next await or to its end;
\* the end of recoverState lets startListener start the timer and subscribe
SweepResult(t, r, maxCalls) ==
    /\ Len(r.calls) <= maxCalls
    /\ payments' = r.payments
    /\ calls' = r.calls
    /\ tasks' = [tasks EXCEPT ![t] = r.task]
    /\ phase' = IF r.task.pc = "idle" /\ tasks[t].kind = "recover" THEN "running" ELSE phase

\* getSlot answers: the sweep lists the pending_finality rows and runs
GetSlotReturns(t, maxCalls) ==
    /\ tasks[t].pc = "getSlot"
    /\ SweepResult(t, RunSweep(payments, calls, [tasks[t] EXCEPT !.slot = chainSlot],
                               "promote", PendingFinalityList(payments)), maxCalls)
    /\ UNCHANGED <<listener, stop, credits, chainSlot, now, tz, forwarded, pays, client>>

\* getSlot throws: a tick logs it and ends; recoverState lets it through and
\* startListener rejects before the timer and the subscription exist
GetSlotThrows(t) ==
    /\ tasks[t].pc = "getSlot"
    /\ tasks' = [tasks EXCEPT ![t] = IdleTask]
    /\ phase' = IF tasks[t].kind = "recover" THEN "down" ELSE phase
    /\ UNCHANGED <<listener, stop, payments, credits, calls, chainSlot, now, tz, forwarded, pays, client>>

\* executeTransfer after its await, transfer resolved: 'succeeded', credit
TransferReturns(t, maxCalls) ==
    /\ tasks[t].pc = "transfer"
    /\ LET p  == tasks[t].cur
           c  == tasks[t].call
           P1 == updateStatus(payments, "succeeded", NULL, TransferId(c), p.id, now)
           CL == [calls EXCEPT ![c].outcome = "ok"]
       IN  /\ credits' = createCredit(credits, p.agent_id, p.meter_id, p.id)
           /\ SweepResult(t, RunSweep(P1, CL, tasks[t], tasks[t].stage, tasks[t].rest), maxCalls)
    /\ UNCHANGED <<listener, stop, chainSlot, now, tz, forwarded, pays, client>>

\* executeTransfer after its await, transfer rejected: 'failed' with message
TransferThrows(t, maxCalls) ==
    /\ tasks[t].pc = "transfer"
    /\ LET p  == tasks[t].cur
           c  == tasks[t].call
           P1 == updateStatus(payments, "failed", "Transfer failed", NULL, p.id, now)
           CL == [calls EXCEPT ![c].outcome = "threw"]
       IN  SweepResult(t, RunSweep(P1, CL, tasks[t], tasks[t].stage, tasks[t].rest), maxCalls)
    /\ UNCHANGED <<listener, stop, credits, chainSlot, now, tz, forwarded, pays, client>>

\* onLogs callback
DeliverLogs(batch) ==
    /\ phase = "running"
    /\ payments' = processLogs(payments, batch, now).payments
    /\ UNCHANGED <<listener, stop, credits, calls, chainSlot, now, tz, phase, tasks, forwarded, pays, client>>

\* the process dies between two statements
Crash ==
    /\ phase # "down"
    /\ phase' = "down"
    /\ tasks' = [t \in TaskIds |-> IdleTask]
    /\ calls' = LoseInflight(calls)
    /\ UNCHANGED <<listener, stop, payments, credits, chainSlot, now, tz, forwarded, pays, client>>

\* the process dies in executeTransfer between the 'succeeded' update and
\* credits.create (two statements, no transaction around them)
CrashBeforeCredit(t) ==
    /\ tasks[t].pc = "transfer"
    /\ payments' = updateStatus(payments, "succeeded", NULL, TransferId(tasks[t].call),
                                tasks[t].cur.id, now)
    /\ calls' = LoseInflight([calls EXCEPT ![tasks[t].call].outcome = "ok"])
    /\ phase' = "down"
    /\ tasks' = [u \in TaskIds |-> IdleTask]
    /\ UNCHANGED <<listener, stop, credits, chainSlot, now, tz, forwarded, pays, client>>

\* the chain produces blocks
AdvanceChain ==
    /\ \E s \in SlotValues : s > chainSlot /\ chainSlot' = s
    /\ UNCHANGED <<listener, stop, payments, credits, calls, now, tz, phase, tasks, forwarded, pays, client>>

\* time passes
AdvanceClock ==
    /\ \E c \in ClockValues : c > now /\ now' = c
    /\ UNCHANGED <<listener, stop, payments, credits, calls, chainSlot, tz, phase, tasks, forwarded, pays, client>>

Next ==
    \/ StartListener
    \/ TimerTick
    \/ \E t \in TaskIds : GetSlotReturns(t, MaxCalls)
    \/ \E t \in TaskIds : GetSlotThrows(t)
    \/ \E t \in TaskIds : TransferReturns(t, MaxCalls)
    \/ \E t \in TaskIds : TransferThrows(t, MaxCalls)
    \/ \E batch \in LogBatches : DeliverLogs(batch)
    \/ Crash
    \/ \E t \in TaskIds : CrashBeforeCredit(t)
    \/ AdvanceChain
    \/ AdvanceClock

Spec == Init /\ [][Next]_vars

\* ========================================================================
\* HTTP side: x402 gateway (routes/x402.ts)
\* ========================================================================
\* gateway requests proxied upstream in one behaviour
MaxForwards == 3

\* a request header that is not sent
NoHeader == "none"

\* requests to /m/:meterId/*: the two authentication headers and the meter
GatewayRequests ==
    [agentId : {NoHeader, "agent-1", "agent-2", "agent-x"},
     apiKey : {NoHeader, "ak_1", "ak_2"},
     meterId : {"meter-1", "meter-x"}]

\* the request of agent-1, rightly authenticated, for meter-1 (what the SDK
\* client of that agent sends)
GoodRequest == [agentId |-> "agent-1", apiKey |-> "ak_1", meterId |-> "meter-1"]

\* db.agents.findById.get / db.meters.findById.get
AgentsById(id) == { a \in AgentRows : a.id = id }
MetersById(id) == { m \in MeterRows : m.id = id }

\* (mutant) findAvailable without its test of the used flag
findAvailableAnyCredit(C, agentId, meterId) ==
    { j \in DOMAIN C : C[j].agent_id = agentId /\ C[j].meter_id = meterId }

\* credits.findAvailable: ... WHERE agent_id = ? AND meter_id = ? AND
\* used = FALSE LIMIT 1, with no ORDER BY: any one of these rows
findAvailable(C, agentId, meterId) ==
    { j \in DOMAIN C : C[j].agent_id = agentId /\ C[j].meter_id = meterId
                       /\ C[j].used = FALSE }

\* credits.markUsed
markUsed(C, j) == [C EXCEPT ![j].used = TRUE]

\* (mutant) authenticateAgent without its test of agent.frozen
authenticateAgentIgnoresFrozen(req) ==
    IF req.agentId = NoHeader \/ req.apiKey = NoHeader THEN 401
    ELSE IF AgentsById(req.agentId) = {} THEN 401
    ELSE IF (CHOOSE a \in AgentsById(req.agentId) : TRUE).api_key # req.apiKey THEN 401
    ELSE 0

\* authenticateAgent: the status it answers, 0 when it calls next()
authenticateAgent(req) ==
    IF req.agentId = NoHeader \/ req.apiKey = NoHeader THEN 401
    ELSE IF AgentsById(req.agentId) = {} THEN 401
    ELSE LET agent == CHOOSE a \in AgentsById(req.agentId) : TRUE
         IN  IF agent.api_key # req.apiKey THEN 401
             ELSE IF agent.frozen THEN 403
             ELSE 0

NoBody == [type |-> "error"]

\* router.all('/m/:meterId/*'): the status answered, the body of a 402, and
\* the credits table and the upstream traffic it leaves.  j is the row
\* findAvailable returned, when it returned one.
gatewayRoute(C, F, req, j) ==
    LET auth == authenticateAgent(req)
    IN  IF auth # 0 THEN [status |-> auth, body |-> NoBody, credits |-> C, forwarded |-> F]
        ELSE IF MetersById(req.meterId) = {}
        THEN [status |-> 404, body |-> NoBody, credits |-> C, forwarded |-> F]
        ELSE LET agent == CHOOSE a \in AgentsById(req.agentId) : TRUE
                 meter == CHOOSE m \in MetersById(req.meterId) : TRUE
             IN  IF findAvailable(C, agent.id, meter.id) = {}
                 THEN [status |-> 402,
                       body |-> [type |-> "x402", meterId |-> meter.id,
                                 amount |-> meter.price_per_call,
                                 category |-> meter.category],
                       credits |-> C, forwarded |-> F]
                 ELSE [status |-> 200, body |-> NoBody,
                       credits |-> markUsed(C, j),
                       forwarded |-> Append(F, [agent_id |-> agent.id,
                                                meter_id |-> meter.id, credit |-> j])]

\* the rows findAvailable may return to the handler of this request (0: none)
GatewayPicks(C, req) ==
    IF findAvailable(C, req.agentId, req.meterId) = {} THEN {0}
    ELSE findAvailable(C, req.agentId, req.meterId)

\* One gateway request, from authenticateAgent to the call of
\* proxyToUpstream: there is no await before markUsed, so concurrent
\* requests run this one after the other.  The HTTP server listens while
\* the process is up.
GatewayRequest(req) ==
    /\ phase # "down"
    /\ Len(forwarded) < MaxForwards
    /\ \E j \in GatewayPicks(credits, req) :
        /\ credits' = gatewayRoute(credits, forwarded, req, j).credits
        /\ forwarded' = gatewayRoute(credits, forwarded, req, j).forwarded
    /\ UNCHANGED <<listener, stop, payments, calls, chainSlot, now, tz, phase, tasks, pays, client>>

\* events of the gateway behaviours: one payment of agent-1, one of the
\* frozen agent-2, both for meter-1
EvFrozen == EventData("A2", "M1", Big(0, 50000), 1, Big(0, 7), TRUE, 1)

GatewayBatches ==
    { [err |-> FALSE, hasEvent |-> TRUE, data |-> d] : d \in {EvA, EvB, EvFrozen} }

\* a process in UTC that does not crash, with the gateway in use
InitGateway == Init /\ tz = 0

NextGateway ==
    \/ StartListener
    \/ TimerTick
    \/ \E t \in TaskIds : GetSlotReturns(t, MaxCalls)
    \/ \E t \in TaskIds : TransferReturns(t, MaxCalls)
    \/ \E t \in TaskIds : TransferThrows(t, MaxCalls)
    \/ \E batch \in GatewayBatches : DeliverLogs(batch)
    \/ AdvanceChain
    \/ \E req \in GatewayRequests : GatewayRequest(req)

SpecGateway == InitGateway /\ [][NextGateway]_vars

\* ========================================================================
\* HTTP side: POST /agents/:id/pay (the route that leaves the payment
\* record to the listener) and the SDK client (sdk/src/index.ts)
\* ========================================================================
\* pay requests that submit a transaction in one behaviour
MaxPays == 2

\* requests to POST /agents/:id/pay: the agent of the path, the key header,
\* meterId, amount and category of the body
PayBodies ==
    { [amount |-> 50000, category |-> 1], [amount |-> 0, category |-> 2] }

PayRequests ==
    { [id |-> id, apiKey |-> key, meterId |-> meterId,
       amount |-> b.amount, category |-> b.category] :
        id \in {"agent-1", "agent-2", "agent-x"}, key \in {NoHeader, "ak_1"},
        meterId \in {"meter-1", "meter-x"}, b \in PayBodies }

\* nonce = crypto.randomBytes(8).readBigUInt64LE(0): any u64.  Here one
\* below 2^53, then 2^53 and 2^53 + 1.
PayNonces == { Big(0, 7), Big(1, 0), Big(1, 1) }

\* the checks of the pay route: the status it answers, 0 when it goes on
payRouteStatus(req) ==
    IF AgentsById(req.id) = {} THEN 404
    ELSE LET agent == CHOOSE a \in AgentsById(req.id) : TRUE
         IN  IF agent.frozen THEN 403
             ELSE IF req.apiKey = NoHeader \/ req.apiKey # agent.api_key THEN 401
             ELSE IF MetersById(req.meterId) = {} THEN 404
             ELSE 0

\* The pay route up to connection.sendTransaction, on the list PY of
\* submitted payments: the transaction carries agent, meter, the amount and
\* category of the body and the nonce, and the program emits them as
\* MeterPaid with the slot it ran in.  live: the listener's subscription exists and hears the logs.
payRoute(PY, req, nonce, slot, by, live) ==
    IF payRouteStatus(req) # 0 THEN PY
    ELSE LET agent == CHOOSE a \in AgentsById(req.id) : TRUE
             meter == CHOOSE m \in MetersById(req.meterId) : TRUE
         IN  Append(PY, [agent |-> agent.agent_pubkey, meter |-> meter.meter_pubkey,
                         amount |-> Big(0, req.amount), category |-> req.category,
                         nonce |-> nonce, slot |-> slot, pc |-> "sent",
                         eventId |-> <<>>, by |-> by, live |-> live, seen |-> FALSE])

\* the eventId the pay route answers: generateIdempotencyKey given the
\* bigint nonce, which the template string prints digit for digit
payRouteEventId(pay) == generateIdempotencyKey(pay.agent, pay.meter, pay.nonce)

\* the MeterPaid event of a submitted payment, and its log batch
PaidEvent(pay) ==
    EventData(pay.agent, pay.meter, pay.amount, pay.category, pay.nonce, TRUE, pay.slot)

PaidBatch(pay) == [err |-> FALSE, hasEvent |-> TRUE, data |-> PaidEvent(pay)]

\* the request the SDK client sends the pay route in handlePayment
ClientPayRequest ==
    [id |-> "agent-1", apiKey |-> "ak_1", meterId |-> "meter-1",
     amount |-> (CHOOSE m \in MetersById("meter-1") : TRUE).price_per_call,
     category |-> (CHOOSE m \in MetersById("meter-1") : TRUE).category]

\* POST /agents/:id/pay by any caller, up to the submission.  The nonce
\* seeds the authorization account, so a nonce is submitted once.
PayRequest(req, nonce) ==
    /\ phase # "down"
    /\ Len(pays) < MaxPays
    /\ \A i \in DOMAIN pays : pays[i].nonce # nonce
    /\ pays' = payRoute(pays, req, nonce, chainSlot, "other", phase = "running")
    /\ UNCHANGED <<listener, stop, payments, credits, calls, chainSlot, now, tz, phase, tasks,
                   forwarded, client>>

\* (mutant) a pay route that, after confirmTransaction, writes the credit
\* for the payment itself
PayRespondInsertsCredit(i) ==
    /\ phase # "down"
    /\ i \in DOMAIN pays
    /\ pays[i].pc = "sent"
    /\ pays' = [pays EXCEPT ![i].pc = "responded", ![i].eventId = payRouteEventId(pays[i])]
    /\ client' = IF client.pc = "paying" /\ client.pay = i
                 THEN [client EXCEPT !.pc = "retry", !.payStatus = 200] ELSE client
    /\ credits' = createCredit(credits, "agent-1", "meter-1", Len(payments) + 1)
    /\ UNCHANGED <<listener, stop, payments, calls, chainSlot, now, tz, phase, tasks, forwarded>>

\* the pay route after confirmTransaction: it answers success with eventId;
\* a client awaiting it goes on to its retry
PayRespond(i) ==
    /\ phase # "down"
    /\ i \in DOMAIN pays
    /\ pays[i].pc = "sent"
    /\ pays' = [pays EXCEPT ![i].pc = "responded", ![i].eventId = payRouteEventId(pays[i])]
    /\ client' = IF client.pc = "paying" /\ client.pay = i
                 THEN [client EXCEPT !.pc = "retry", !.payStatus = 200] ELSE client
    /\ UNCHANGED <<listener, stop, payments, credits, calls, chainSlot, now, tz, phase, tasks, forwarded>>

\* callPaywalledApi: the first gateway request and its answer
ClientCall ==
    /\ client.pc = "idle"
    /\ phase # "down"
    /\ Len(forwarded) < MaxForwards
    /\ \E j \in GatewayPicks(credits, GoodRequest) :
        /\ credits' = gatewayRoute(credits, forwarded, GoodRequest, j).credits
        /\ forwarded' = gatewayRoute(credits, forwarded, GoodRequest, j).forwarded
        /\ client' = [client EXCEPT
                        !.pc = IF gatewayRoute(credits, forwarded, GoodRequest, j).status = 402
                               THEN "got402" ELSE "returned",
                        !.requests = @ + 1,
                        !.status = gatewayRoute(credits, forwarded, GoodRequest, j).status]
    /\ UNCHANGED <<listener, stop, payments, calls, chainSlot, now, tz, phase, tasks, pays>>

\* handlePayment: the client posts to the pay route
ClientPay(nonce) ==
    /\ client.pc = "got402"
    /\ phase # "down"
    /\ Len(pays) < MaxPays
    /\ \A i \in DOMAIN pays : pays[i].nonce # nonce
    /\ pays' = payRoute(pays, ClientPayRequest, nonce, chainSlot, "client", phase = "running")
    /\ client' = [client EXCEPT !.pc = "paying", !.pay = Len(pays) + 1,
                                !.payCalls = @ + 1]
    /\ UNCHANGED <<listener, stop, payments, credits, calls, chainSlot, now, tz, phase, tasks, forwarded>>

\* handlePayment when the pay route answers 500: its getSlot or
\* sendTransaction rejected, nothing was submitted; paymentResponse.ok is
\* false and handlePayment throws, out of callPaywalledApi
ClientPayFails ==
    /\ client.pc = "got402"
    /\ phase # "down"
    /\ client' = [client EXCEPT !.pc = "threw", !.payCalls = @ + 1, !.payStatus = 500]
    /\ UNCHANGED <<listener, stop, payments, credits, calls, chainSlot, now, tz, phase, tasks,
                   forwarded, pays>>

\* (mutant) the retried request with its response returned whatever its
\* status
ClientRetryReturnsAny ==
    /\ client.pc = "retry"
    /\ phase # "down"
    /\ Len(forwarded) < MaxForwards
    /\ \E j \in GatewayPicks(credits, GoodRequest) :
        /\ credits' = gatewayRoute(credits, forwarded, GoodRequest, j).credits
        /\ forwarded' = gatewayRoute(credits, forwarded, GoodRequest, j).forwarded
        /\ client' = [client EXCEPT
                        !.pc = "returned",
                        !.requests = @ + 1,
                        !.status = gatewayRoute(credits, forwarded, GoodRequest, j).status]
    /\ UNCHANGED <<listener, stop, payments, calls, chainSlot, now, tz, phase, tasks, pays>>

\* callPaywalledApi after handlePayment: the one retried request; a 402
\* makes it throw, any other response is returned
ClientRetry ==
    /\ client.pc = "retry"
    /\ phase # "down"
    /\ Len(forwarded) < MaxForwards
    /\ \E j \in GatewayPicks(credits, GoodRequest) :
        /\ credits' = gatewayRoute(credits, forwarded, GoodRequest, j).credits
        /\ forwarded' = gatewayRoute(credits, forwarded, GoodRequest, j).forwarded
        /\ client' = [client EXCEPT
                        !.pc = IF gatewayRoute(credits, forwarded, GoodRequest, j).status = 402
                               THEN "threw" ELSE "returned",
                        !.requests = @ + 1,
                        !.status = gatewayRoute(credits, forwarded, GoodRequest, j).status]
    /\ UNCHANGED <<listener, stop, payments, calls, chainSlot, now, tz, phase, tasks, pays>>

\* onLogs callback for the logs of a submitted payment
DeliverPaid(i) ==
    /\ phase = "running"
    /\ i \in DOMAIN pays
    /\ pays[i].live
    /\ payments' = processLogs(payments, PaidBatch(pays[i]), now).payments
    /\ pays' = [pays EXCEPT ![i].seen = TRUE]
    /\ UNCHANGED <<listener, stop, credits, calls, chainSlot, now, tz, phase, tasks, forwarded, client>>

\* The process dies in createInitialPaymentRecord between payments.create
\* and updateStatus('pending_finality') (two statements, no transaction).
\* Requests in progress are lost and the next subscription hears no logs
\* of earlier transactions.
CrashInIngestion(i) ==
    /\ phase = "running"
    /\ i \in DOMAIN pays
    /\ pays[i].live
    /\ createInitialPaymentRecord(payments, PaidEvent(pays[i]), now).outcome = "inserted"
    /\ payments' = insertPayment(payments, PaidEvent(pays[i]),
                                 CHOOSE a \in AgentsByPubkey(pays[i].agent) : TRUE,
                                 CHOOSE m \in MetersByPubkey(pays[i].meter) : TRUE, now)
    /\ pays' = [k \in DOMAIN pays |->
                  [pays[k] EXCEPT !.live = FALSE,
                                  !.seen = (k = i) \/ @,
                                  !.pc = IF @ = "sent" THEN "lost" ELSE @]]
    /\ client' = IF client.pc = "paying" THEN [client EXCEPT !.pc = "threw"] ELSE client
    /\ calls' = LoseInflight(calls)
    /\ phase' = "down"
    /\ tasks' = [t \in TaskIds |-> IdleTask]
    /\ UNCHANGED <<listener, stop, credits, chainSlot, now, tz, forwarded>>

\* the whole payment flow, in a process in UTC
InitFlow == Init /\ tz = 0

NextFlow ==
    \/ StartListener
    \/ TimerTick
    \/ \E t \in TaskIds : GetSlotReturns(t, MaxCalls)
    \/ \E t \in TaskIds : TransferReturns(t, MaxCalls)
    \/ \E t \in TaskIds : TransferThrows(t, MaxCalls)
    \/ AdvanceChain
    \/ \E req \in PayRequests : \E nonce \in PayNonces : PayRequest(req, nonce)
    \/ \E i \in 1..MaxPays : PayRespond(i)
    \/ ClientCall
    \/ \E nonce \in PayNonces : ClientPay(nonce)
    \/ ClientRetry
    \/ \E i \in 1..MaxPays : DeliverPaid(i)
    \/ \E i \in 1..MaxPays : CrashInIngestion(i)

SpecFlow == InitFlow /\ [][NextFlow]_vars

\* the SDK client against gateway, pay route and listener, with a pay route
\* that may answer 500 and another payment for the same agent and meter
\* (the two payments with one nonce each)
InitClient == Init /\ tz = 0

NextClient ==
    \/ StartListener
    \/ TimerTick
    \/ \E t \in TaskIds : GetSlotReturns(t, MaxCalls)
    \/ \E t \in TaskIds : TransferReturns(t, MaxCalls)
    \/ \E t \in TaskIds : TransferThrows(t, MaxCalls)
    \/ AdvanceChain
    \/ PayRequest(ClientPayRequest, Big(1, 0))
    \/ \E i \in 1..MaxPays : PayRespond(i)
    \/ ClientCall
    \/ ClientPay(Big(0, 7))
    \/ ClientPayFails
    \/ ClientRetry
    \/ \E i \in 1..MaxPays : DeliverPaid(i)

SpecClient == InitClient /\ [][NextClient]_vars

\* ========================================================================
\* Properties
\* ========================================================================
RowsWithEventId(P, eventId) == { i \in DOMAIN P : P[i].event_id = eventId }

CreditsOf(C, paymentId) == { j \in DOMAIN C : C[j].payment_id = paymentId }

CallsOf(CL, paymentId) == { k \in DOMAIN CL : CL[k].payment_id = paymentId }

\* the dedup key of a decoded event, written out: sha256 over agent, meter
\* and the nonce as a JS number
KeyOfEvent(d) == generateIdempotencyKey(d.agent, d.meter, ToNumber(d.nonce))

\* a batch createInitialPaymentRecord accepts: the transaction succeeded, a
\* MeterPaid event with a positive slot, agent and meter registered
ValidBatch(b) ==
    /\ ~b.err /\ b.hasEvent /\ b.data.hasSlot /\ b.data.slot > 0
    /\ \E a \in AgentRows : a.agent_pubkey = b.data.agent
    /\ \E m \in MeterRows : m.meter_pubkey = b.data.meter

\* a batch whose event has no slot, or slot zero, or a negative slot
BadSlotBatch(b) == b.hasEvent /\ (~b.data.hasSlot \/ b.data.slot <= 0)

\* the step is a call of processLogs on batch b (the frame is tested first:
\* it is the cheap part)
Delivered(b) == tasks' = tasks /\ calls' = calls /\ DeliverLogs(b)

\* C1: idempotent ingestion.  However often a decoded MeterPaid event is
\* delivered, and whatever sweeps run in between, there is exactly one
\* payments row with its event_id: a valid delivery leaves exactly one such
\* row, a delivery of an event already recorded leaves the table as it is,
\* and no step of any kind adds a second row with a recorded event_id or
\* removes a row.  (A delivery changes neither tasks, calls, credits nor the
\* clock, and the rows are counted before the step is matched against
\* processLogs: both orders are for speed only.)
C1_IdempotentIngestion ==
    [][ /\ (tasks' = tasks /\ calls' = calls /\ credits' = credits /\ now' = now) =>
            \A b \in LogBatches :
                ValidBatch(b) =>
                    \/ /\ Cardinality(RowsWithEventId(payments', KeyOfEvent(b.data))) = 1
                       /\ (RowsWithEventId(payments, KeyOfEvent(b.data)) # {}
                              => payments' = payments)
                    \/ ~Delivered(b)
        /\ \A i, j \in DOMAIN payments' :
            payments'[i].event_id = payments'[j].event_id => i = j
        /\ \A i \in DOMAIN payments :
            /\ i \in DOMAIN payments'
            /\ payments'[i].event_id = payments[i].event_id ]_vars

\* C1 witness: both events are recorded, one of them already settled by a
\* sweep, and the subscription is live, so either can be delivered again
C1_Witness ==
    /\ Len(payments) = 2
    /\ \E i \in DOMAIN payments : payments[i].status = "succeeded"
    /\ \E b \in LogBatches :
        /\ ValidBatch(b)
        /\ RowsWithEventId(payments, KeyOfEvent(b.data)) # {}
        /\ ENABLED DeliverLogs(b)

\* C6: invalid slot rejection.  Delivering an event whose slot is absent,
\* zero or negative leaves the payments table unchanged, and no row ever
\* carries a slot that is not positive or that differs from the slot of the
\* event it was made from (the current chain slot is never put in its place).
C6_InvalidSlotRejected ==
    [][ /\ \A b \in LogBatches :
            (BadSlotBatch(b) /\ Delivered(b)) => payments' = payments
        /\ \A i \in DOMAIN payments' : payments'[i].slot > 0
        /\ \A b \in LogBatches :
            (Len(payments') = Len(payments) + 1 /\ Delivered(b)) =>
                payments'[Len(payments')].slot = b.data.slot ]_vars

\* C6 witness: the subscription is live at a chain slot other than any
\* event's slot, a row exists, and an event with slot zero, one with a
\* negative slot and one without slot can each be delivered
C6_Witness ==
    /\ phase = "running" /\ chainSlot = 34 /\ Len(payments) = 1
    /\ \E b \in LogBatches : ~b.err /\ b.hasEvent /\ b.data.hasSlot /\ b.data.slot = 0
                             /\ ENABLED DeliverLogs(b)
    /\ \E b \in LogBatches : ~b.err /\ b.hasEvent /\ b.data.hasSlot /\ b.data.slot < 0
                             /\ ENABLED DeliverLogs(b)
    /\ \E b \in LogBatches : ~b.err /\ b.hasEvent /\ ~b.data.hasSlot
                             /\ ENABLED DeliverLogs(b)

\* ------------------------------------------------------------------------
\* Overlapping sweeps at length: a process in a zone east of UTC that does
\* not crash, with room for more transfer calls.
\* ------------------------------------------------------------------------
InitOverlap == Init /\ tz = 3600

NextOverlap ==
    \/ StartListener
    \/ TimerTick
    \/ \E t \in TaskIds : GetSlotReturns(t, MaxCallsOverlap)
    \/ \E t \in TaskIds : TransferReturns(t, MaxCallsOverlap)
    \/ \E t \in TaskIds : TransferThrows(t, MaxCallsOverlap)
    \/ \E batch \in LogBatches : DeliverLogs(batch)
    \/ AdvanceChain

SpecOverlap == InitOverlap /\ [][NextOverlap]_vars

\* C2: every succeeded payment has exactly one credits row
C2_OneCreditPerSucceeded ==
    \A i \in DOMAIN payments :
        payments[i].status = "succeeded" =>
            Cardinality(CreditsOf(credits, payments[i].id)) = 1

\* C3: every transferUsdc call made for a payment carries that payment's
\* stored from_wallet_id, to_wallet_id, amount (as a string) and its event_id
\* as idempotency key; hence all calls for one record have the same arguments
C3_TransferArgsFromRecord ==
    /\ \A k \in DOMAIN calls : \E i \in DOMAIN payments :
        /\ payments[i].id = calls[k].payment_id
        /\ calls[k].args.idempotencyKey = payments[i].event_id
        /\ calls[k].args.fromWalletId = payments[i].from_wallet_id
        /\ calls[k].args.toWalletId = payments[i].to_wallet_id
        /\ calls[k].args.amount = NumToString(payments[i].amount)
    /\ \A k, l \in DOMAIN calls :
        calls[k].payment_id = calls[l].payment_id => calls[k].args = calls[l].args

\* C3 witness: a record whose promoter call was cut by a crash has been
\* given a second call by the Reaper
C3_Witness ==
    \E k, l \in DOMAIN calls :
        /\ k < l /\ calls[k].payment_id = calls[l].payment_id
        /\ calls[k].via = "promote" /\ calls[k].outcome = "lost"
        /\ calls[l].via = "reap"

\* the sweep that takes the step, and the slot it has observed
Acting(t) == tasks'[t] # tasks[t] /\ tasks[t].pc \in {"getSlot", "transfer"}
ObservedSlot(t) == IF tasks[t].pc = "getSlot" THEN chainSlot ELSE tasks[t].slot

\* C4: no premature finality.  A step that changes the status of a
\* pending_finality record with slot S, or makes a transfer call for it, is
\* the step of a sweep whose observed current slot C has C - S >= 32.
C4_NoPrematureFinality ==
    [][ \A i \in DOMAIN payments :
            ( /\ payments[i].status = "pending_finality"
              /\ \/ payments'[i].status # "pending_finality"
                 \/ CallsOf(calls', payments[i].id) # CallsOf(calls, payments[i].id) )
            => \E t \in TaskIds :
                   /\ Acting(t)
                   /\ ObservedSlot(t) - payments[i].slot >= FINALITY_BUFFER
                   /\ \A u \in TaskIds : Acting(u) => u = t ]_vars

\* C4 witness: a sweep that observed slot C has passed over a pending_finality
\* record with C - S = 31 and promoted the record listed after it
C4_Witness ==
    \E t \in TaskIds : \E i \in DOMAIN payments :
        /\ tasks[t].pc = "transfer" /\ tasks[t].stage = "promote"
        /\ payments[i].status = "pending_finality"
        /\ payments[i].id < tasks[t].cur.id
        /\ tasks[t].slot - payments[i].slot = FINALITY_BUFFER - 1
        /\ tasks[t].slot - tasks[t].cur.slot >= FINALITY_BUFFER

Settled(status) == status \in {"succeeded", "failed"}

\* a sweep ends in this step by running out of work (not by a crash)
SweepEnds(t) ==
    /\ tasks[t].pc = "transfer" /\ tasks'[t].pc = "idle" /\ phase' # "down"

\* C5: every record a sweep tick promotes has been run through
\* executeTransfer by the end of that tick, so the record ends the tick as
\* succeeded or failed.
C5_PromotedEndTickSettled ==
    [][ \A t \in TaskIds :
            SweepEnds(t) =>
                \A i \in DOMAIN payments' :
                    payments'[i].id \in tasks[t].promoted => Settled(payments'[i].status) ]_vars

StatusRank(status) ==
    CASE status = "pending_finality" -> 0
      [] status = "pending" -> 1
      [] status = "processing" -> 2
      [] OTHER -> 3

\* C7: status monotonicity.  No step moves a record's status backward in
\* pending_finality < pending < processing < {succeeded, failed}.
C7_StatusMonotone ==
    [][ \A i \in DOMAIN payments :
            StatusRank(payments'[i].status) >= StatusRank(payments[i].status) ]_vars

\* C8: a succeeded payment has exactly one successfully returned transfer call
C8_OneSuccessfulTransfer ==
    \A i \in DOMAIN payments :
        payments[i].status = "succeeded" =>
            Cardinality({ k \in CallsOf(calls, payments[i].id) : calls[k].outcome = "ok" }) = 1

\* C9: failed is terminal.  Once a record is failed (with its error message)
\* no step changes its status and no further transfer call is made for it.
C9_FailedIsTerminal ==
    [][ \A i \in DOMAIN payments :
            (payments[i].status = "failed" /\ payments[i].error_message # NULL) =>
                /\ payments'[i].status = "failed"
                /\ CallsOf(calls', payments[i].id) = CallsOf(calls, payments[i].id) ]_vars

\* a record left in processing by a crash: its call never returned and no
\* call for it is in flight
Interrupted(i) ==
    /\ payments[i].status = "processing"
    /\ \E k \in CallsOf(calls, payments[i].id) : calls[k].outcome = "lost"
    /\ \A k \in CallsOf(calls, payments[i].id) : calls[k].outcome # "inflight"

\* the step in which a sweep runs retryFailedPayments: it leaves the loop of
\* processPendingFinality and lists the stuck records
ReaperListing(t) ==
    /\ tasks'[t] # tasks[t] /\ phase' # "down"
    /\ \/ tasks[t].pc = "getSlot" /\ tasks[t].kind = "recover"
       \/ tasks[t].pc = "transfer" /\ tasks[t].stage = "promote"
    /\ tasks'[t].stage \in {"reap", "none"}

\* C10: crash recovery.  A record left in processing by a crash whose
\* updated_at is more than 60 seconds old is taken up by the Reaper pass
\* that runs then: the pass calls executeTransfer for it (first in its list)
\* or holds it in its list, with the record's event_id as idempotency key.
C10_ReaperResumesInterrupted ==
    [][ \A t \in TaskIds : \A i \in DOMAIN payments :
            ( /\ ReaperListing(t)
              /\ Interrupted(i)
              /\ (now - payments[i].updated_at) * 1000 > StuckTimeoutMs )
            => \/ \E k \in CallsOf(calls', payments[i].id) :
                     /\ k \notin DOMAIN calls
                     /\ calls'[k].args.idempotencyKey = payments[i].event_id
               \/ \E j \in DOMAIN tasks'[t].rest : tasks'[t].rest[j].id = payments[i].id ]_vars


\* ------------------------------------------------------------------------
\* Gateway claims
\* ------------------------------------------------------------------------
PairCredits(C, a, m) == { j \in DOMAIN C : C[j].agent_id = a /\ C[j].meter_id = m }

PairForwards(F, a, m) == { k \in DOMAIN F : F[k].agent_id = a /\ F[k].meter_id = m }

\* C11: credits are consumed at most once.  No two proxied requests used
\* the same credit row; the credit a proxied request used was unused when
\* the request selected it, belongs to the request's agent and meter and is
\* used afterwards; a used credit never becomes unused again; and for every
\* (agent, meter) pair the requests proxied upstream are never more than
\* the credits created for the pair.
C11_CreditsConsumedOnce ==
    [][ /\ \A k, l \in DOMAIN forwarded' :
            forwarded'[k].credit = forwarded'[l].credit => k = l
        /\ \A k \in DOMAIN forwarded' :
            /\ forwarded'[k].credit \in DOMAIN credits'
            /\ credits'[forwarded'[k].credit].used
            /\ credits'[forwarded'[k].credit].agent_id = forwarded'[k].agent_id
            /\ credits'[forwarded'[k].credit].meter_id = forwarded'[k].meter_id
        /\ \A k \in DOMAIN forwarded' :
            k \notin DOMAIN forwarded =>
                /\ forwarded'[k].credit \in DOMAIN credits
                /\ ~credits[forwarded'[k].credit].used
        /\ \A j \in DOMAIN credits :
            credits[j].used => (j \in DOMAIN credits' /\ credits'[j].used)
        /\ \A a \in AgentRows : \A m \in MeterRows :
            Cardinality(PairForwards(forwarded', a.id, m.id))
                <= Cardinality(PairCredits(credits', a.id, m.id)) ]_vars

\* C11 witness: two credits of agent-1 for meter-1 have each served one
\* request, none is left, and a further request of the agent can arrive
C11_Witness ==
    /\ Len(forwarded) = 2
    /\ Cardinality(PairCredits(credits, "agent-1", "meter-1")) = 2
    /\ \A j \in PairCredits(credits, "agent-1", "meter-1") : credits[j].used
    /\ ENABLED GatewayRequest(GoodRequest)

\* what a request lacks, read off the request and the tables
BadCredentials(req) ==
    \/ req.agentId = NoHeader \/ req.apiKey = NoHeader
    \/ \A a \in AgentRows : a.id = req.agentId => a.api_key # req.apiKey

FrozenAgent(req) ==
    \E a \in AgentRows : a.id = req.agentId /\ a.api_key = req.apiKey /\ a.frozen

UnknownMeter(req) == \A m \in MeterRows : m.id # req.meterId

NoUnusedCredit(C, req) ==
    \A j \in DOMAIN C :
        (C[j].agent_id = req.agentId /\ C[j].meter_id = req.meterId) => C[j].used

\* the status the gateway owes such a request (200: none of the above)
OwedStatus(C, req) ==
    IF BadCredentials(req) THEN 401
    ELSE IF FrozenAgent(req) THEN 403
    ELSE IF UnknownMeter(req) THEN 404
    ELSE IF NoUnusedCredit(C, req) THEN 402
    ELSE 200

\* the step is the handling of request req
Handled(req) == payments' = payments /\ tasks' = tasks /\ GatewayRequest(req)

\* C19: rejected requests never consume credit.  A request with missing
\* headers, an unknown agent or a wrong key is answered 401, one of a
\* frozen agent 403, one for an unknown meter 404, one with no unused
\* credit 402 with body type x402 and amount = the meter's price_per_call;
\* and handling such a request leaves the credits table and the upstream
\* traffic as they were (no step that changes either is the handling of
\* such a request).
C19_RejectedConsumesNothing ==
    /\ [](\A req \in GatewayRequests : \A j \in GatewayPicks(credits, req) :
            OwedStatus(credits, req) # 200 =>
                /\ gatewayRoute(credits, forwarded, req, j).status = OwedStatus(credits, req)
                /\ OwedStatus(credits, req) = 402 =>
                    /\ gatewayRoute(credits, forwarded, req, j).body.type = "x402"
                    /\ \E m \in MeterRows :
                        /\ m.id = req.meterId
                        /\ gatewayRoute(credits, forwarded, req, j).body.amount
                               = m.price_per_call)
    /\ [][ (credits' # credits \/ forwarded' # forwarded) =>
                \A req \in GatewayRequests :
                    OwedStatus(credits, req) # 200 => ~Handled(req) ]_vars

\* C19 witness: the frozen agent holds an unused credit, agent-1 holds only
\* a used one, and requests of either kind can arrive
C19_Witness ==
    /\ \E j \in PairCredits(credits, "agent-2", "meter-1") : ~credits[j].used
    /\ PairCredits(credits, "agent-1", "meter-1") # {}
    /\ OwedStatus(credits, GoodRequest) = 402
    /\ ENABLED GatewayRequest(GoodRequest)
    /\ ENABLED GatewayRequest([agentId |-> "agent-2", apiKey |-> "ak_2",
                               meterId |-> "meter-1"])


\* ------------------------------------------------------------------------
\* Record claims
\* ------------------------------------------------------------------------
\* C12: every payments row is in status pending_finality from the moment it
\* exists in the store: whatever step adds a row, crashes during ingestion
\* included, the row it adds is pending_finality (rows are never removed,
\* so every later status of a record follows pending_finality).
C12_EntersAtPendingFinality ==
    [][ \A i \in DOMAIN payments' :
            i \notin DOMAIN payments => payments'[i].status = "pending_finality" ]_vars

\* C13: in every reachable state a payment's error_message is non-null only
\* if its status is failed, and its circle_transfer_id is non-null only if
\* its status is succeeded.
C13_MessageAndTransferIdByStatus ==
    \A i \in DOMAIN payments :
        /\ payments[i].error_message # NULL => payments[i].status = "failed"
        /\ payments[i].circle_transfer_id # NULL => payments[i].status = "succeeded"

\* C13 witness: a record that failed, with its message, next to a record
\* that succeeded, with its transfer id
C13_Witness ==
    /\ \E i \in DOMAIN payments :
        payments[i].status = "failed" /\ payments[i].error_message # NULL
    /\ \E i \in DOMAIN payments :
        payments[i].status = "succeeded" /\ payments[i].circle_transfer_id # NULL

\* C14: the dedup key is path-independent.  The eventId the pay route
\* answers for a payment equals the event_id the listener computes for the
\* MeterPaid event of that payment.
C14_KeyPathIndependent ==
    \A i \in DOMAIN pays :
        pays[i].pc = "responded" => pays[i].eventId = EventIdOf(PaidEvent(pays[i]))

\* the step is the first delivery of the logs of payment i
FirstDelivery(i) ==
    /\ tasks' = tasks /\ calls' = calls
    /\ i \in DOMAIN pays /\ ~pays[i].seen
    /\ DeliverPaid(i)

\* C15: one record per distinct (payer, payee, nonce).  Events of two
\* payments with different nonces get different event_ids, and the first
\* delivery of a payment's event adds a payments row.
C15_OneRecordPerNonce ==
    [][ /\ \A i, k \in DOMAIN pays :
            pays[i].nonce # pays[k].nonce =>
                EventIdOf(PaidEvent(pays[i])) # EventIdOf(PaidEvent(pays[k]))
        /\ \A i \in 1..MaxPays :
            FirstDelivery(i) => Len(payments') = Len(payments) + 1 ]_vars

\* C16: every payments row has amount > 0, and no transfer call is made
\* with amount zero.
C16_AmountPositive ==
    /\ \A i \in DOMAIN payments : Positive(payments[i].amount)
    /\ \A k \in DOMAIN calls : calls[k].args.amount # NumToString(Big(0, 0))

\* C17: the category stored on a payments row equals the category
\* registered for the row's meter, whatever the event carried.
C17_CategoryFromMeter ==
    \A i \in DOMAIN payments : \A m \in MeterRows :
        m.id = payments[i].meter_id => payments[i].category = m.category

\* C17 witness: the event that carries category 2 for the meter registered
\* with category 1 has been recorded
C17_Witness ==
    /\ EvB.category # (CHOOSE m \in MetersByPubkey(EvB.meter) : TRUE).category
    /\ \E i \in DOMAIN payments : payments[i].event_id = KeyOfEvent(EvB)

\* the identity fields of a row
Identity(r) ==
    <<r.id, r.event_id, r.agent_id, r.meter_id, r.amount, r.nonce, r.category,
      r.slot, r.from_wallet_id, r.to_wallet_id>>

\* C18: payment records are append-only and their identity fields are
\* immutable: no step removes a row, and no step changes a row's event_id,
\* agent_id, meter_id, amount, nonce, category, slot, from_wallet_id or
\* to_wallet_id.
C18_AppendOnlyIdentity ==
    [][ \A i \in DOMAIN payments :
            /\ i \in DOMAIN payments'
            /\ Identity(payments'[i]) = Identity(payments[i]) ]_vars

\* C18 witness: a record has gone through every write the listener makes
\* (promoted, transfer threw, re-run by the Reaper after a crash or by an
\* overlapping sweep, succeeded) next to a record not yet promoted
C18_Witness ==
    /\ \E i \in DOMAIN payments :
        /\ payments[i].status = "succeeded"
        /\ Cardinality(CallsOf(calls, payments[i].id)) = 2
    /\ \E i \in DOMAIN payments : payments[i].status = "pending_finality"

\* the step is the retried gateway request of callPaywalledApi
Retried == client.pc = "retry" /\ client'.pc # "retry"

\* C20: SDK automatic 402 handling.  After a 402 and a successful payment
\* call, the retried gateway request is served from a credit: it is proxied
\* upstream and callPaywalledApi returns the response instead of throwing.
C20_RetryServedFromCredit ==
    [][ Retried => (client'.pc = "returned" /\ Len(forwarded') = Len(forwarded) + 1) ]_vars

\* ------------------------------------------------------------------------
\* A process in UTC that keeps running: no crash, getSlot answers, the timer
\* keeps firing, the chain keeps advancing, the clock runs, and every
\* transfer call returns or throws.
\* ------------------------------------------------------------------------
\* transfer calls one behaviour of SpecLive can hold
MaxCallsLive == 8

\* the batches that make a record
LiveBatches == { b \in LogBatches : ~b.err /\ b.data \in {EvA, EvB} }

InitLive == Init /\ tz = 0

NextLive ==
    \/ StartListener
    \/ TimerTick
    \/ \E t \in TaskIds : GetSlotReturns(t, MaxCallsLive)
    \/ \E t \in TaskIds : TransferReturns(t, MaxCallsLive)
    \/ \E t \in TaskIds : TransferThrows(t, MaxCallsLive)
    \/ \E batch \in LiveBatches : DeliverLogs(batch)
    \/ AdvanceChain
    \/ AdvanceClock

\* setInterval fires again and again, every awaited call settles
FairLive ==
    /\ WF_vars(StartListener)
    /\ WF_vars(TimerTick)
    /\ WF_vars(AdvanceChain)
    /\ \A t \in TaskIds : WF_vars(GetSlotReturns(t, MaxCallsLive))
    /\ \A t \in TaskIds :
        WF_vars(TransferReturns(t, MaxCallsLive) \/ TransferThrows(t, MaxCallsLive))

SpecLive == InitLive /\ [][NextLive]_vars /\ FairLive

\* ------------------------------------------------------------------------
\* Crashes inside a sweep: a process in UTC that can die between the two
\* status writes of a promotion.
\* ------------------------------------------------------------------------
\* the sweep t as it would run when getSlot answers now
SweepAtGetSlot(t) ==
    RunSweep(payments, calls, [tasks[t] EXCEPT !.slot = chainSlot],
             "promote", PendingFinalityList(payments))

\* The process dies in processPendingFinality after
\* updateStatus('pending') of the first record it promotes and before
\* executeTransfer writes 'processing' (two statements, no transaction).
CrashAfterPromote(t) ==
    /\ tasks[t].pc = "getSlot"
    /\ SweepAtGetSlot(t).task.pc = "transfer"
    /\ SweepAtGetSlot(t).task.stage = "promote"
    /\ payments' = updateStatus(payments, "pending", NULL, NULL,
                                SweepAtGetSlot(t).task.cur.id, now)
    /\ calls' = LoseInflight(calls)
    /\ phase' = "down"
    /\ tasks' = [u \in TaskIds |-> IdleTask]
    /\ UNCHANGED <<listener, stop, credits, chainSlot, now, tz, forwarded, pays, client>>

InitRecover == Init /\ tz = 0

NextRecover ==
    \/ StartListener
    \/ TimerTick
    \/ \E t \in TaskIds : GetSlotReturns(t, MaxCalls)
    \/ \E t \in TaskIds : TransferReturns(t, MaxCalls)
    \/ \E t \in TaskIds : TransferThrows(t, MaxCalls)
    \/ \E batch \in LiveBatches : DeliverLogs(batch)
    \/ Crash
    \/ \E t \in TaskIds : CrashAfterPromote(t)
    \/ AdvanceChain
    \/ AdvanceClock

SpecRecover == InitRecover /\ [][NextRecover]_vars

\* ------------------------------------------------------------------------
\* Store faults, events emitted while the listener is down, stopListener:
\* a process in UTC that does not crash.
\* ------------------------------------------------------------------------
\* db.payments.updateStatus.run('pending', ...) of processPendingFinality
\* throws (SQLITE_BUSY, disk full) for the first record the sweep promotes:
\* the statement is outside executeTransfer's try, so processPendingFinality
\* rejects.  In a tick the setInterval callback catches it, past
\* retryFailedPayments; in startup startListener rejects.
PromoteWriteThrows(t) ==
    /\ tasks[t].pc = "getSlot"
    /\ SweepAtGetSlot(t).task.pc = "transfer"
    /\ SweepAtGetSlot(t).task.stage = "promote"
    /\ tasks' = [tasks EXCEPT ![t] = IdleTask]
    /\ phase' = IF tasks[t].kind = "recover" THEN "down" ELSE phase
    /\ UNCHANGED <<listener, stop, payments, credits, calls, chainSlot, now, tz, forwarded, pays, client>>

\* executeTransfer after its await, transfer resolved, and
\* db.credits.create.run throws (SQLITE_BUSY, disk full): 'succeeded' with
\* the transfer id is written, then the catch block of executeTransfer
\* writes 'failed' with the message and a null transfer id; the sweep goes on
CreditWriteThrows(t, maxCalls) ==
    /\ tasks[t].pc = "transfer"
    /\ LET p  == tasks[t].cur
           c  == tasks[t].call
           P1 == updateStatus(payments, "succeeded", NULL, TransferId(c), p.id, now)
           P2 == updateStatus(P1, "failed", "credit insert failed", NULL, p.id, now)
           CL == [calls EXCEPT ![c].outcome = "ok"]
       IN  SweepResult(t, RunSweep(P2, CL, tasks[t], tasks[t].stage, tasks[t].rest), maxCalls)
    /\ UNCHANGED <<listener, stop, credits, chainSlot, now, tz, forwarded, pays, client>>

\* A transaction of the program, submitted by anyone while the listener is
\* not running, emits MeterPaid: no subscription hears its logs.
EmitWhileDown(nonce) ==
    /\ phase = "down"
    /\ Len(pays) < MaxPays
    /\ \A i \in DOMAIN pays : pays[i].nonce # nonce
    /\ pays' = Append(pays, [agent |-> "A1", meter |-> "M1", amount |-> Big(0, 50000),
                             category |-> 1, nonce |-> nonce, slot |-> chainSlot,
                             pc |-> "emitted", eventId |-> <<>>, by |-> "chain",
                             live |-> FALSE, seen |-> FALSE])
    /\ UNCHANGED <<listener, stop, payments, credits, calls, chainSlot, now, tz, phase, tasks,
                   forwarded, client>>

\* stopListener up to its await: it returns at once unless isRunning is set
\* and a subscription exists
StopListenerCall ==
    /\ stop # "unsubscribing"
    /\ stop' = IF phase = "running" THEN "unsubscribing" ELSE "completed"
    /\ UNCHANGED <<listener, payments, credits, calls, chainSlot, now, tz, phase, tasks,
                   forwarded, pays, client>>

\* stopListener after removeOnLogsListener: clearInterval, subscriptionId =
\* null, isRunning = false.  Sweeps in flight are left to run.
StopListenerDone ==
    /\ stop = "unsubscribing"
    /\ stop' = "completed"
    /\ phase' = "down"
    /\ UNCHANGED <<listener, payments, credits, calls, chainSlot, now, tz, tasks,
                   forwarded, pays, client>>

\* startListener, called when no earlier sweep holds the first task slot
\* (a sweep that stopListener left in flight keeps its slot)
StartListenerIdle ==
    /\ tasks[1].pc = "idle"
    /\ StartListener

InitFaults == Init /\ tz = 0

NextFaults ==
    \/ StartListenerIdle
    \/ TimerTick
    \/ \E t \in TaskIds : GetSlotReturns(t, MaxCalls)
    \/ \E t \in TaskIds : TransferReturns(t, MaxCalls)
    \/ \E t \in TaskIds : TransferThrows(t, MaxCalls)
    \/ \E batch \in LiveBatches : DeliverLogs(batch)
    \/ AdvanceChain
    \/ \E t \in TaskIds : PromoteWriteThrows(t)
    \/ \E t \in TaskIds : CreditWriteThrows(t, MaxCalls)
    \/ \E nonce \in PayNonces : EmitWhileDown(nonce)
    \/ StopListenerCall
    \/ StopListenerDone

SpecFaults == InitFaults /\ [][NextFaults]_vars

\* ------------------------------------------------------------------------
\* Sweeps, faults and shutdown
\* ------------------------------------------------------------------------
\* C21: at most one executor run per record at a time.  In one process
\* there are never two executeTransfer invocations awaiting their transfer
\* call for the same payment.
C21_OneExecutorPerRecord ==
    \A k, l \in DOMAIN calls :
        ( /\ calls[k].outcome = "inflight" /\ calls[l].outcome = "inflight"
          /\ calls[k].payment_id = calls[l].payment_id ) => k = l

\* C23: the Reaper re-invokes executeTransfer only for records whose status
\* is processing and whose updated_at is more than 60 seconds before the
\* current time: every call a Reaper pass makes in a step is for a record
\* that was such before the step.
C23_ReaperOnlyStuckProcessing ==
    [][ \A k \in DOMAIN calls' :
            (k \notin DOMAIN calls /\ calls'[k].via = "reap") =>
                \E i \in DOMAIN payments :
                    /\ payments[i].id = calls'[k].payment_id
                    /\ payments[i].status = "processing"
                    /\ (now - payments[i].updated_at) * 1000 > StuckTimeoutMs ]_vars

\* C25: a failure of getSlot, in a periodic tick or in the startup recovery
\* of startListener, leaves every record as it is, and the periodic sweep
\* and the log subscription are active afterwards.
C25_GetSlotFailureHarmless ==
    [][ \A t \in TaskIds :
            (tasks[t].pc = "getSlot" /\ GetSlotThrows(t)) =>
                (payments' = payments /\ phase' = "running") ]_vars

\* C30: a log batch whose err flag is set causes no state change:
\* processLogs returns before parsing and the delivery leaves the payments
\* table (and everything else) as it is.
C30_FailedTransactionDiscarded ==
    [][ \A b \in LogBatches :
            (b.err /\ Delivered(b)) =>
                /\ processLogs(payments, b, now).outcome = "tx_failed"
                /\ payments' = payments /\ credits' = credits ]_vars

\* C30 witness: the subscription is live with a record in the table, and a
\* batch with err set carries a valid event that is not recorded yet
C30_Witness ==
    /\ phase = "running" /\ Len(payments) = 1
    /\ \E b \in LogBatches :
        /\ b.err
        /\ createInitialPaymentRecord(payments, b.data, now).outcome = "inserted"
        /\ ENABLED DeliverLogs(b)

\* the records a behaviour of SpecLive can hold
LiveRecords == 1..Cardinality({ b.data : b \in LiveBatches })

C22_DuplicateIsNoOp ==
    [][ \A b \in LiveBatches :
            ( /\ ParsedEvents(b) # {}
              /\ RowsWithEventId(payments, EventIdOf(b.data)) # {}
              /\ Delivered(b) ) =>
                /\ processLogs(payments, b, now).outcome = "duplicate"
                /\ payments' = payments /\ credits' = credits ]_vars

\* C22 witness: the subscription is live, the record of one event was left
\* in pending by a crash, the record of the other has been through
\* executeTransfer, and either event can be delivered again
C22_Witness ==
    /\ \E i \in DOMAIN payments : payments[i].status = "pending"
    /\ \E i \in DOMAIN payments : payments[i].status \in {"processing", "succeeded", "failed"}
    /\ \A b \in LiveBatches :
        ParsedEvents(b) # {} =>
            (RowsWithEventId(payments, EventIdOf(b.data)) # {} /\ ENABLED DeliverLogs(b))

\* C27: stuck pending records are retried.  A pass of retryFailedPayments,
\* in a tick or in startup recovery, that runs while a record is in status
\* pending takes the record up: it calls executeTransfer for it or holds it
\* in its list.
C27_PendingRetried ==
    [][ \A t \in TaskIds : \A i \in DOMAIN payments :
            (ReaperListing(t) /\ payments[i].status = "pending") =>
                \/ \E k \in CallsOf(calls', payments[i].id) : k \notin DOMAIN calls
                \/ \E j \in DOMAIN tasks'[t].rest : tasks'[t].rest[j].id = payments[i].id ]_vars

\* what a tick whose first promotion failed still has to do when getSlot
\* answers: a further record of its list has reached finality, or a record
\* is stuck in processing
MoreWorkAtGetSlot(t) ==
    \/ \E j \in DOMAIN SweepAtGetSlot(t).task.rest :
           FinalityReached(chainSlot, SweepAtGetSlot(t).task.rest[j])
    \/ SelectSeq(payments, IsStuck) # <<>>

\* what a sweep awaiting a transfer still has to do
MoreWorkAtTransfer(t) ==
    IF tasks[t].stage = "promote"
    THEN \E j \in DOMAIN tasks[t].rest : FinalityReached(tasks[t].slot, tasks[t].rest[j])
    ELSE tasks[t].rest # <<>>

\* C24: per-record failure isolation.  Within one tick, a failure while
\* processing one record (the transfer call throwing, or a store write for
\* the record throwing) does not stop the tick: it goes on to the remaining
\* eligible records and to the Reaper pass.
C24_FailureIsolated ==
    [][ \A t \in TaskIds :
            /\ ( /\ tasks[t].pc = "transfer" /\ tasks[t].kind = "tick"
                 /\ MoreWorkAtTransfer(t)
                 /\ TransferThrows(t, MaxCalls) ) => tasks'[t].pc = "transfer"
            /\ ( /\ tasks[t].pc = "getSlot" /\ tasks[t].kind = "tick"
                 /\ PromoteWriteThrows(t)
                 /\ MoreWorkAtGetSlot(t) ) => tasks'[t].pc = "transfer" ]_vars

\* C28: missed events are recovered at startup.  When startListener has
\* finished its startup, every MeterPaid event emitted while the listener
\* was down has a payments row.
C28_MissedEventsRecovered ==
    [][ (phase = "recovering" /\ phase' = "running") =>
            \A i \in DOMAIN pays :
                pays[i].by = "chain" =>
                    RowsWithEventId(payments', EventIdOf(PaidEvent(pays[i]))) # {} ]_vars

\* C29: clean shutdown.  After a stopListener call has completed and until
\* startListener is called again, no sweep tick begins and no log batch is
\* ingested; stopListener leaves the sweeps in flight as they are.
C29_CleanShutdown ==
    [][ /\ stop = "completed" =>
            (~TimerTick /\ \A b \in LiveBatches : ~DeliverLogs(b))
        /\ StopListenerDone => (tasks' = tasks /\ calls' = calls) ]_vars

\* ------------------------------------------------------------------------
\* Unknown identities, the SDK client, provenance of rows, listener instances
\* ------------------------------------------------------------------------
\* a batch with a MeterPaid event whose agent or meter pubkey is in no row
\* of the agents / meters tables
UnknownIdentityBatch(b) ==
    /\ ~b.err /\ b.hasEvent
    /\ \/ ~\E a \in AgentRows : a.agent_pubkey = b.data.agent
       \/ ~\E m \in MeterRows : m.meter_pubkey = b.data.meter

\* C31: an event whose agent pubkey or meter pubkey is not registered is
\* dropped.  Its delivery leaves the payments table as it is, and after any
\* step (a delivery, a sweep, a restart) there is no payments row with its
\* event_id and no circle.transferUsdc call with its event_id as idempotency
\* key.
C31_UnknownIdentityDropped ==
    [][ \A b \in LogBatches :
            UnknownIdentityBatch(b) =>
                /\ RowsWithEventId(payments', KeyOfEvent(b.data)) = {}
                /\ \A k \in DOMAIN calls' :
                       calls'[k].args.idempotencyKey # KeyOfEvent(b.data)
                /\ (payments' = payments \/ ~Delivered(b)) ]_vars

\* C31 witness: the subscription is live, records of registered pairs have
\* been ingested and one of them settled by a sweep, and an event of an
\* unknown agent and an event of an unknown meter, both with a valid slot,
\* can be delivered
C31_Witness ==
    /\ phase = "running" /\ Len(payments) = 2
    /\ \E i \in DOMAIN payments : payments[i].status = "succeeded"
    /\ \E b \in LogBatches :
        /\ UnknownIdentityBatch(b) /\ ~InvalidSlot(b.data.slot) /\ b.data.hasSlot
        /\ AgentsByPubkey(b.data.agent) = {}
        /\ processLogs(payments, b, now).outcome = "unknown_agent"
        /\ ENABLED DeliverLogs(b)
    /\ \E b \in LogBatches :
        /\ UnknownIdentityBatch(b) /\ ~InvalidSlot(b.data.slot) /\ b.data.hasSlot
        /\ processLogs(payments, b, now).outcome = "unknown_meter"
        /\ ENABLED DeliverLogs(b)

\* C32: callPaywalledApi is bounded.  One invocation makes at most two
\* gateway requests and at most one payment call; a response it returns
\* after paying is not a 402 (a second 402 makes it throw); and when the
\* payment call has not succeeded the invocation has made one gateway
\* request only and, once the payment call has failed, has thrown.
C32_ClientBounded ==
    /\ client.requests <= 2 /\ client.payCalls <= 1
    /\ client.requests = 2 => client.payCalls = 1
    /\ (client.pc = "returned" /\ client.payCalls > 0) => client.status # 402
    /\ (client.requests = 2 /\ client.status = 402) => client.pc = "threw"
    /\ (client.payCalls = 1 /\ client.payStatus # 200) =>
            (client.requests = 1 /\ client.pc \in {"paying", "threw"})
    /\ client.payStatus = 500 => client.pc = "threw"

\* C32 witness: the client paid, retried and got a second 402, so it threw
\* after two gateway requests and one payment call
C32_Witness ==
    /\ client.pc = "threw" /\ client.requests = 2 /\ client.payCalls = 1
    /\ client.payStatus = 200 /\ client.status = 402

\* a step of the pay route: it submits a transaction, answers, or fails
PayRouteStep ==
    \/ Len(pays') > Len(pays)
    \/ \E i \in DOMAIN pays : pays[i].pc = "sent" /\ pays'[i].pc = "responded"
    \/ client'.payStatus # client.payStatus

C34_FailedMeansUnpaid ==
    \A i \in DOMAIN payments :
        payments[i].status = "failed" =>
            \A k \in DOMAIN calls :
                calls[k].args.idempotencyKey = payments[i].event_id =>
                    calls[k].outcome # "ok"

\* ------------------------------------------------------------------------
\* Listener instances: startListener and stopListener called in any order,
\* calls overlapping at their awaits.  The payments table is empty and the
\* program has no traffic, so recoverState is its getSlot alone and sweeps
\* and log callbacks change nothing.
\* ------------------------------------------------------------------------
Recovering(L) == { c \in StartIds : L.starts[c] = "recovering" }

\* startListener up to its await: 'Already running' when isRunning is set,
\* else await recoverState()
StartListenerCalled(c) ==
    /\ listener.starts[c] = "none"
    /\ \A d \in StartIds : d < c => listener.starts[d] # "none"
    /\ listener' = [listener EXCEPT !.starts[c] =
                        IF listener.isRunning THEN "returned" ELSE "recovering"]
    /\ phase' = IF ~listener.isRunning /\ phase = "down" THEN "recovering" ELSE phase
    /\ stop' = IF stop = "unsubscribing" THEN stop ELSE "idle"
    /\ UNCHANGED <<payments, credits, calls, chainSlot, now, tz, tasks,
                   forwarded, pays, client>>

\* startListener after recoverState: startRetryJob() stores a new interval
\* timer in retryInterval, connection.onLogs a new subscription in
\* state.subscriptionId, then isRunning = true
RecoveryReturns(c) ==
    /\ listener.starts[c] = "recovering"
    /\ listener' = [listener EXCEPT !.starts[c] = "returned",
                                    !.made = @ + 1,
                                    !.timers = @ \cup {listener.made + 1},
                                    !.retryInterval = listener.made + 1,
                                    !.subs = @ \cup {listener.made + 1},
                                    !.subscriptionId = listener.made + 1,
                                    !.isRunning = TRUE]
    /\ phase' = "running"
    /\ UNCHANGED <<stop, payments, credits, calls, chainSlot, now, tz, tasks,
                   forwarded, pays, client>>

\* the getSlot of recoverState rejects: startListener rejects
RecoveryRejects(c) ==
    /\ listener.starts[c] = "recovering"
    /\ listener' = [listener EXCEPT !.starts[c] = "rejected"]
    /\ phase' = IF phase = "recovering" /\ Recovering(listener) = {c} THEN "down" ELSE phase
    /\ UNCHANGED <<stop, payments, credits, calls, chainSlot, now, tz, tasks,
                   forwarded, pays, client>>

\* stopListener up to its await: it returns at once unless isRunning is set
\* and subscriptionId is not null; else it calls removeOnLogsListener with
\* the subscriptionId of this moment
StopListenerCalled ==
    /\ listener.stopSub = 0
    /\ IF ~listener.isRunning \/ listener.subscriptionId = 0
       THEN /\ stop' = "completed"
            /\ listener' = listener
       ELSE /\ stop' = "unsubscribing"
            /\ listener' = [listener EXCEPT !.stopSub = listener.subscriptionId]
    /\ UNCHANGED <<payments, credits, calls, chainSlot, now, tz, phase, tasks,
                   forwarded, pays, client>>

\* stopListener after its await: the subscription it named is removed,
\* clearInterval(retryInterval) cancels the timer retryInterval holds now,
\* subscriptionId = null, isRunning = false (retryInterval keeps its value)
StopListenerReturns ==
    /\ listener.stopSub # 0
    /\ listener' = [listener EXCEPT !.subs = @ \ {listener.stopSub},
                                    !.timers = @ \ {listener.retryInterval},
                                    !.subscriptionId = 0,
                                    !.isRunning = FALSE,
                                    !.stopSub = 0]
    /\ stop' = "completed"
    /\ phase' = IF Recovering(listener) # {} THEN "recovering" ELSE "down"
    /\ UNCHANGED <<payments, credits, calls, chainSlot, now, tz, tasks,
                   forwarded, pays, client>>

InitInstances == Init /\ tz = 0

NextInstances ==
    \/ \E c \in StartIds : StartListenerCalled(c)
    \/ \E c \in StartIds : RecoveryReturns(c)
    \/ \E c \in StartIds : RecoveryRejects(c)
    \/ StopListenerCalled
    \/ StopListenerReturns
    \/ AdvanceChain

SpecInstances == InitInstances /\ [][NextInstances]_vars

\* C35: single listener instance.  For any sequence of startListener and
\* stopListener calls, overlapping ones included, at most one log
\* subscription and at most one sweep timer exist at any time, and every
\* timer that exists is the one retryInterval holds, which is the one
\* stopListener can cancel.
C35_SingleListenerInstance ==
    /\ Cardinality(listener.subs) <= 1
    /\ Cardinality(listener.timers) <= 1
    /\ \A id \in listener.timers : id = listener.retryInterval

====
